---- MODULE Spec2Model ----
(***************************************************************************)
(* Model of main.py: a Flask backend with one route, POST                  *)
(* /api/analisar-seo, over a SQLite table documentos(id, texto,            *)
(* embedding).  The handler inserts the request's content with a seeded    *)
(* pseudo-embedding, scans the whole table for the rows most similar to    *)
(* the content (cosine similarity, top 5) and shapes the result for a      *)
(* chart frontend.  The __main__ block seeds five demo rows into an empty  *)
(* table before serving.                                                   *)
(*                                                                         *)
(* Abstractions, all stated here:                                          *)
(*  - a text is a sequence of tokens; " " is the whitespace token;         *)
(*  - an embedding has 2 components (512 in the code) which are small      *)
(*    positive integers (float32 draws of [0,1) in the code);              *)
(*  - Python's hash is a keyed fold over the tokens, 6 bits wide, and the  *)
(*    seed modulus 2^32-1 is scaled to 2^5-1;                              *)
(*  - a similarity is kept exactly, as the reduced fraction of the         *)
(*    squared cosine: the components are non-negative, so the order of     *)
(*    the squares is the order of the cosines, and 1/1 is the score 1.0;   *)
(*  - a handler runs atomically (the spec's single synchronous process).   *)
(***************************************************************************)
EXTENDS Integers, Sequences, FiniteSets, TLC

VARIABLES
    schema,    \* TRUE once the table documentos exists in banco_local.db
    table,     \* the rows of documentos, in rowid order
    autoinc,   \* sqlite_sequence: the largest id AUTOINCREMENT has given out
    mode,      \* "stopped", "main" (run as a script) or "wsgi" (imported)
    hashSeed,  \* the running interpreter's string-hash key
    last,      \* what the last handler (or search call) did and answered
    hist       \* history: how many rows each kind of operation inserted

vars == <<schema, table, autoinc, mode, hashSeed, last, hist>>

\* Rows a run may hold in documentos before requests stop being generated.
MaxRows == 7

\* Rows of the stores the search function is tried on.
MaxStore == 3

Min(a, b) == IF a < b THEN a ELSE b

Max(a, b) == IF a > b THEN a ELSE b

-----------------------------------------------------------------------------
(* Values of the request's "content" and of the body.                      *)

StrV(t) == [kind |-> "str", val |-> t]

IntV(n) == [kind |-> "int", val |-> n]

ListV(l) == [kind |-> "list", val |-> l]

NullV == [kind |-> "null", val |-> 0]

\* A JSON object with or without the key "content".
Body(has, c) == [hasContent |-> has, content |-> c]

TextA == <<"a">>

TextAB == <<"a", " ", "b">>

Bodies ==
    { Body(FALSE, NullV),
      Body(TRUE, NullV),
      Body(TRUE, StrV(<<>>)),
      Body(TRUE, StrV(TextAB)),
      Body(TRUE, IntV(5)),
      Body(TRUE, ListV(<<"a">>)) }

\* The interpreter picks its string-hash key at start (PYTHONHASHSEED).
HashSeeds == {0, 1}

\* data.get('content', '')
GetContent(body) == IF body.hasContent THEN body.content ELSE StrV(<<>>)

\* Python truth value: `if not content` rejects the falsy ones.
Truthy_onlyNull(c) == c.kind # "null"

Truthy(c) ==
    CASE c.kind = "str" -> Len(c.val) > 0
      [] c.kind = "int" -> c.val # 0
      [] c.kind = "list" -> Len(c.val) > 0
      [] OTHER -> FALSE

-----------------------------------------------------------------------------
(* gerar_embedding_simples                                                 *)

HashSpace == 2^6

SeedModulus == 2^5 - 1

Code(tok) ==
    CASE tok = " " -> 0
      [] tok = "a" -> 1
      [] tok = "b" -> 2
      [] tok = "marketing" -> 3
      [] tok = "SEO" -> 4
      [] tok = "mapas" -> 5
      [] tok = "videos" -> 6
      [] tok = "IA" -> 7
      [] OTHER -> 8

RECURSIVE StrHashFrom(_, _)
StrHashFrom(h, t) ==
    IF t = <<>> THEN h
    ELSE StrHashFrom((h * 5 + Code(Head(t)) + 1) % HashSpace, Tail(t))

\* hash(): keyed for a str, the number itself for an int, TypeError for a list.
Hashable(c) == c.kind \in {"str", "int"}

PyHash(seed, c) ==
    IF c.kind = "str" THEN StrHashFrom((seed * 3) % HashSpace, c.val) ELSE c.val

\* The vectors np.random.rand can draw, by seed.
Vecs == << <<1, 2>>, <<2, 1>>, <<1, 1>>, <<3, 1>> >>

Rand(s) == Vecs[(s % Len(Vecs)) + 1]

gerar_embedding_simples(seed, c) == Rand(PyHash(seed, c) % SeedModulus)

\* ndarray.tobytes(): four little-endian bytes per component.
LE4(c) == << c % 256, (c \div 256) % 256, (c \div 65536) % 256, (c \div 16777216) % 256 >>

RECURSIVE ToBytes(_)
ToBytes(v) == IF v = <<>> THEN <<>> ELSE LE4(Head(v)) \o ToBytes(Tail(v))

\* np.frombuffer(emb_bytes, dtype=np.float32)
FromBuffer(b) ==
    [i \in 1..(Len(b) \div 4) |->
        b[4*i - 3] + 256 * b[4*i - 2] + 65536 * b[4*i - 1] + 16777216 * b[4*i]]

-----------------------------------------------------------------------------
(* The store.                                                              *)

DigitChars == <<"0", "1", "2", "3", "4", "5", "6", "7", "8", "9">>

\* str(n) for n >= 0
RECURSIVE Digits(_)
Digits(n) ==
    IF n < 10 THEN <<DigitChars[n + 1]>>
    ELSE Digits(n \div 10) \o <<DigitChars[(n % 10) + 1]>>

\* What a TEXT column keeps of a bound value: a number is stored as its text.
SqlText(c) == IF c.kind = "str" THEN c.val ELSE Digits(c.val)

\* AUTOINCREMENT: one more than the largest id ever given out.
NextId_reuse(seq) == Max(seq, 1)

NextId(seq) == seq + 1

Row(id, c, emb) == [id |-> id, texto |-> SqlText(c), embedding |-> ToBytes(emb)]

\* inserir_documento: the table after INSERT and commit.
inserir_documento_lost(t, seq, seed, c) == t

inserir_documento(t, seq, seed, c) ==
    Append(t, Row(NextId(seq), c, gerar_embedding_simples(seed, c)))


-----------------------------------------------------------------------------
(* buscar_similares                                                        *)

Dot(a, b) == a[1] * b[1] + a[2] * b[2]

RECURSIVE GCD(_, _)
GCD(a, b) == IF b = 0 THEN a ELSE GCD(b, a % b)

\* The score 1.0: a vector against one of its own direction.
One == [num |-> 1, den |-> 1]

\* cosine_similarity([a], [b])[0][0], squared and in lowest terms; a zero
\* vector is left unnormalised and scores 0.
cosine_similarity(a, b) ==
    LET d == Dot(a, b) * Dot(a, b)
        n == Dot(a, a) * Dot(b, b)
        g == GCD(d, n)
    IN  IF n = 0 THEN [num |-> 0, den |-> 1]
        ELSE [num |-> d \div g, den |-> n \div g]

Greater(s1, s2) == s1.num * s2.den > s2.num * s1.den

\* One step of sorted(..., key=lambda x: x[1], reverse=True): the sort is
\* stable, so x goes behind every element whose key is not smaller.
InsertDesc_unstable(acc, x) ==
    LET before == SelectSeq(acc, LAMBDA y : Greater(y[2], x[2]))
        after == SelectSeq(acc, LAMBDA y : ~Greater(y[2], x[2]))
    IN  before \o <<x>> \o after

InsertDesc(acc, x) ==
    LET before == SelectSeq(acc, LAMBDA y : ~Greater(x[2], y[2]))
        after == SelectSeq(acc, LAMBDA y : Greater(x[2], y[2]))
    IN  before \o <<x>> \o after

RECURSIVE SortedFrom(_, _)
SortedFrom(acc, s) ==
    IF s = <<>> THEN acc ELSE SortedFrom(InsertDesc(acc, Head(s)), Tail(s))

SortDesc_ascending(s) ==
    LET d == SortedFrom(<<>>, s) IN [i \in 1..Len(d) |-> d[Len(d) + 1 - i]]

SortDesc(s) == SortedFrom(<<>>, s)

\* combinados[:top_k], a Python slice: a negative stop counts from the end.
Slice_offByOne(s, k) == SubSeq(s, 1, Min(Max(k + 1, 0), Len(s)))

Slice(s, k) ==
    IF k >= 0 THEN SubSeq(s, 1, Min(k, Len(s)))
    ELSE SubSeq(s, 1, Max(Len(s) + k, 0))

\* The list of ((id, texto), score), best first, cut to top_k.
buscar_similares(t, seed, consulta, top_k) ==
    LET embedding_consulta == gerar_embedding_simples(seed, consulta)
        pares == [i \in 1..Len(t) |->
                    << <<t[i].id, t[i].texto>>,
                       cosine_similarity(embedding_consulta, FromBuffer(t[i].embedding)) >>]
    IN  Slice(SortDesc(pares), top_k)

-----------------------------------------------------------------------------
(* analisar_seo_data: shaping the answer.                                  *)

\* top_k of the endpoint's call of buscar_similares.
TopKEndpoint == 5

\* content.split(): the maximal runs of non-whitespace tokens.
RECURSIVE SplitFrom(_, _, _)
SplitFrom(words, cur, t) ==
    LET flushed == IF cur = <<>> THEN words ELSE Append(words, cur)
    IN  IF t = <<>> THEN flushed
        ELSE IF Head(t) = " " THEN SplitFrom(flushed, <<>>, Tail(t))
        ELSE SplitFrom(words, Append(cur, Head(t)), Tail(t))

Split(t) == SplitFrom(<<>>, <<>>, t)

\* Integer square root (Newton), for printing a score.
RECURSIVE ISqrtFrom(_, _)
ISqrtFrom(x, n) ==
    LET y == (x + n \div x) \div 2 IN IF y >= x THEN x ELSE ISqrtFrom(y, n)

ISqrt(n) == IF n = 0 THEN 0 ELSE ISqrtFrom(n, n)

\* round(s * 100, 1), in tenths of a percent.
Round1(s) == (ISqrt((4000000 * s.num) \div s.den) + 1) \div 2

\* f"{s:.2f}", in hundredths.
Fmt2(s) == (ISqrt((40000 * s.num) \div s.den) + 1) \div 2

\* labels_pie: "Doc ID {id}" per result, or the two placeholder labels.
FallbackLabels == <<"Nenhuma Palavra-Chave", "Dados Genericos">>

FallbackData == <<50, 50>>

LabelsPie(similares) ==
    IF similares = <<>> THEN FallbackLabels
    ELSE [i \in 1..Len(similares) |-> <<"Doc ID", similares[i][1][1]>>]

\* data_pie: the score as a percentage per result, or 50/50.
DataPie_dropFirst(similares) ==
    IF similares = <<>> THEN FallbackData
    ELSE [i \in 1..(Len(similares) - 1) |-> Round1(similares[i + 1][2])]

DataPie(similares) ==
    IF similares = <<>> THEN FallbackData
    ELSE [i \in 1..Len(similares) |-> Round1(similares[i][2])]

Palette == <<"c1", "c2", "c3", "c4", "c5">>

KeywordDistribution(similares) ==
    [labels |-> LabelsPie(similares),
     datasets |-> << [data |-> DataPie(similares),
                      backgroundColor |-> Palette,
                      borderColor |-> Palette,
                      borderWidth |-> 1] >>]

\* key_metrics; only a str has split().
KeyMetrics(content, similares) ==
    << [label |-> "Total de Palavras", value |-> Digits(Len(Split(content.val)))],
       [label |-> "Documentos Similares Encontrados", value |-> Digits(Len(similares))],
       [label |-> "Primeiro Doc. Similar",
        value |-> IF similares # <<>>
                  THEN <<"ID", similares[1][1][1], Fmt2(similares[1][2])>>
                  ELSE <<"N/A">>],
       [label |-> "Qualidade do Texto", value |-> <<"Excelente (Simulado)">>] >>

\* The store the SELECT of buscar_similares reads: the insert is committed
\* before the search is called.
StoreSearched_beforeInsert(before, after) == before

StoreSearched(before, after) == after

-----------------------------------------------------------------------------
(* State.                                                                  *)

NoCall ==
    [body |-> Body(FALSE, NullV), status |-> 0, payload |-> <<>>,
     connOpened |-> FALSE, connClosed |-> FALSE,
     rowsBefore |-> 0, rowsAfter |-> 0, rowid |-> 0,
     searched |-> FALSE, topK |-> 0, similares |-> <<>>]

NoHist == [demo |-> 0, ok |-> 0, failedAfterInsert |-> 0, seedings |-> 0, skipped |-> FALSE]

Init ==
    /\ schema = FALSE
    /\ table = <<>>
    /\ autoinc = 0
    /\ mode = "stopped"
    /\ hashSeed = 0
    /\ last = NoCall
    /\ hist = NoHist

\* The five fixed texts of the __main__ block, each cut to its key word.
DemoTexts == << <<"marketing">>, <<"SEO">>, <<"mapas">>, <<"videos">>, <<"IA">> >>

RECURSIVE InsertAll(_, _, _, _)
InsertAll(t, seq, seed, texts) ==
    IF texts = <<>> THEN t
    ELSE InsertAll(inserir_documento(t, seq, seed, StrV(Head(texts))),
                   seq + 1, seed, Tail(texts))

\* SELECT COUNT(*) FROM documentos = 0
SeedNeeded_always(t) == TRUE

SeedNeeded(t) == Len(t) = 0

\* The interpreter starts.  Run as a script (asMain) it opens the store,
\* creates the table if absent, seeds an empty table and serves; imported
\* by a server it only serves, and the table is made by the first request.
Start(asMain, seed) ==
    /\ mode = "stopped"
    /\ hashSeed' = seed
    /\ mode' = IF asMain THEN "main" ELSE "wsgi"
    /\ schema' = (schema \/ asMain)
    /\ IF asMain /\ SeedNeeded(table)
       THEN /\ table' = InsertAll(table, autoinc, seed, DemoTexts)
            /\ autoinc' = autoinc + Len(DemoTexts)
            /\ hist' = [hist EXCEPT !.demo = @ + Len(DemoTexts), !.seedings = @ + 1]
       ELSE /\ UNCHANGED <<table, autoinc>>
            /\ hist' = [hist EXCEPT !.skipped = @ \/ asMain]
    /\ UNCHANGED last

\* The process ends, and its hash key and its answers with it; the file
\* banco_local.db stays.
Stop ==
    /\ mode # "stopped"
    /\ mode' = "stopped"
    /\ hashSeed' = 0
    /\ last' = NoCall
    /\ UNCHANGED <<schema, table, autoinc, hist>>

\* POST /api/analisar-seo with a JSON object as body.
Request(body) ==
    /\ mode # "stopped"
    /\ Len(table) < MaxRows
    /\ LET content == GetContent(body)
           call == [NoCall EXCEPT !.body = body, !.rowsBefore = Len(table),
                                  !.rowsAfter = Len(table)]
       IN  IF ~Truthy(content)
           THEN \* 400 before the store is touched
                /\ last' = [call EXCEPT !.status = 400,
                                        !.payload = [error |-> "Conteudo de texto nao fornecido."]]
                /\ UNCHANGED <<schema, table, autoinc, hist>>
           ELSE IF ~Hashable(content)
           THEN \* conectar_banco, then hash() raises inside inserir_documento
                /\ schema' = TRUE
                /\ last' = [call EXCEPT !.status = 500, !.connOpened = TRUE]
                /\ UNCHANGED <<table, autoinc, hist>>
           ELSE LET after == inserir_documento(table, autoinc, hashSeed, content)
                    similares == buscar_similares(StoreSearched(table, after), hashSeed,
                                                  content, TopKEndpoint)
                    done == [call EXCEPT !.connOpened = TRUE,
                                         !.rowsAfter = Len(after),
                                         !.rowid = IF Len(after) > Len(table)
                                                   THEN after[Len(after)].id ELSE 0,
                                         !.searched = TRUE,
                                         !.topK = TopKEndpoint,
                                         !.similares = similares]
                IN  /\ schema' = TRUE
                    /\ table' = after
                    /\ autoinc' = IF Len(after) > Len(table) THEN after[Len(after)].id
                                  ELSE autoinc
                    /\ IF content.kind = "str"
                       THEN \* shaped, connection closed, 200
                            /\ last' = [done EXCEPT
                                          !.status = 200,
                                          !.connClosed = TRUE,
                                          !.payload =
                                             [keywordDistribution |-> KeywordDistribution(similares),
                                              keyMetrics |-> KeyMetrics(content, similares)]]
                            /\ hist' = [hist EXCEPT !.ok = @ + 1]
                       ELSE \* content.split() raises after the insert and the search
                            /\ last' = [done EXCEPT !.status = 500]
                            /\ hist' = [hist EXCEPT !.failedAfterInsert = @ + 1]
    /\ UNCHANGED <<mode, hashSeed>>

Next ==
    \/ \E asMain \in BOOLEAN, seed \in HashSeeds : Start(asMain, seed)
    \/ Stop
    \/ \E body \in Bodies : Request(body)

Spec == Init /\ [][Next]_vars

-----------------------------------------------------------------------------
(* buscar_similares on its own: any store the inserts can build, any       *)
(* query, any top_k.                                                       *)

SearchContents == {StrV(TextA), StrV(TextAB), IntV(5)}

TopKs == (0 - 2)..(MaxStore + 1)

\* The stores of exactly n rows that n inserts can build.
RECURSIVE StoresOf(_)
StoresOf(n) ==
    IF n = 0 THEN {<<>>}
    ELSE { inserir_documento(t, Len(t), seed, c) :
             t \in StoresOf(n - 1), seed \in HashSeeds, c \in SearchContents }

InitSearch ==
    /\ schema = TRUE
    /\ \E n \in 0..MaxStore : table \in StoresOf(n)
    /\ autoinc = Len(table)
    /\ mode = "wsgi"
    /\ hashSeed \in HashSeeds
    /\ last = NoCall
    /\ hist = NoHist

SearchCall(consulta, top_k) ==
    /\ last' = [NoCall EXCEPT !.body = Body(TRUE, consulta),
                              !.rowsBefore = Len(table),
                              !.rowsAfter = Len(table),
                              !.searched = TRUE,
                              !.topK = top_k,
                              !.similares = buscar_similares(table, hashSeed, consulta, top_k)]
    /\ UNCHANGED <<schema, table, autoinc, mode, hashSeed, hist>>

NextSearch == \E consulta \in SearchContents, top_k \in TopKs : SearchCall(consulta, top_k)

SpecSearch == InitSearch /\ [][NextSearch]_vars

-----------------------------------------------------------------------------
(* The claims.                                                             *)

Ids(similares) == {similares[i][1][1] : i \in 1..Len(similares)}

\* The score of a stored row against the query of the last call.
ScoreOf(row) ==
    cosine_similarity(gerar_embedding_simples(hashSeed, GetContent(last.body)),
                      FromBuffer(row.embedding))

\* C1 (as amended): the number of rows is the initial count (the demo rows)
\* plus the number of successful (200) calls plus the number of failed (500)
\* calls that committed their insert before failing (a truthy number, on which
\* content.split() raises); a 200 call inserts exactly one row, a 400 call none.
C1_Growth ==
    /\ Len(table) = hist.demo + hist.ok + hist.failedAfterInsert
    /\ last.status = 200 => last.rowsAfter = last.rowsBefore + 1
    /\ last.status = 400 => last.rowsAfter = last.rowsBefore
    /\ last.status = 500 =>
         (last.rowsAfter = last.rowsBefore + 1 <=> last.body.content.kind = "int")

\* C1 as stated: the number of rows is the initial count plus the number of
\* successful calls, whatever other calls were made.
C1_GrowthAsStated == Len(table) = hist.demo + hist.ok

\* A successful call whose content is the text of an existing row added a row,
\* after a failed call had added one too.
C1_Witness ==
    /\ last.status = 200
    /\ hist.failedAfterInsert >= 1
    /\ \E i \in 1..(Len(table) - 1) : table[i].texto = table[Len(table)].texto

NoContent(body) == ~body.hasContent \/ body.content \in {StrV(<<>>), NullV}

\* C2: a call whose body has no content key, or an empty content, is answered
\* 400 with an error field, opens no connection and inserts no row.
C2_Validation ==
    (last.status # 0 /\ NoContent(last.body)) =>
        /\ last.status = 400
        /\ "error" \in DOMAIN last.payload
        /\ ~last.connOpened
        /\ last.rowid = 0
        /\ last.rowsAfter = last.rowsBefore

C2_Witness ==
    /\ last.status = 400
    /\ ~last.body.hasContent
    /\ Len(table) > 0

\* The rows inserted before the last call's own row that score 1.0 against it.
EarlierPerfect ==
    {i \in 1..Len(table) :
        /\ table[i].id < last.rowid
        /\ ScoreOf(table[i]) = One}

C4_TopK ==
    (last.searched /\ last.topK >= 0) =>
        Len(last.similares) = Min(last.topK, Len(table))

\* C4 as stated: for any top_k, at most top_k results, exactly min(top_k, n).
C4_TopKAsStated ==
    last.searched =>
        /\ Len(last.similares) <= last.topK
        /\ Len(last.similares) = Min(last.topK, Len(table))

\* The cut happens: a store of more rows than top_k.
C4_Witness ==
    /\ last.searched
    /\ last.topK > 0
    /\ Len(table) > last.topK
    /\ Len(last.similares) = last.topK

\* x is ranked before y: a higher score, or the same score and a smaller id.
RankedBefore(sx, idx, sy, idy) == Greater(sx, sy) \/ (sx = sy /\ idx < idy)

\* C5: the results are in non-increasing score order, equal scores in
\* insertion order (ascending id), each result is a stored row with its score,
\* and every row left out ranks behind every row returned.
C5_Ordering ==
    last.searched =>
        LET r == last.similares IN
        /\ \A i, j \in 1..Len(r) :
             i < j => RankedBefore(r[i][2], r[i][1][1], r[j][2], r[j][1][1])
        /\ \A i \in 1..Len(r) :
             \E k \in 1..Len(table) :
                /\ table[k].id = r[i][1][1]
                /\ table[k].texto = r[i][1][2]
                /\ ScoreOf(table[k]) = r[i][2]
        /\ \A k \in 1..Len(table) :
             table[k].id \notin Ids(r) =>
                \A i \in 1..Len(r) :
                    RankedBefore(r[i][2], r[i][1][1], ScoreOf(table[k]), table[k].id)

\* Two results tie, and a row of the same score is cut off behind them.
C5_Witness ==
    /\ last.searched
    /\ Len(last.similares) = 2
    /\ last.similares[1][2] = last.similares[2][2]
    /\ Len(table) = 3
    /\ ScoreOf(table[3]) = last.similares[2][2]

\* C6: a handler that opened a store connection has closed it when it ends.
C6_ConnectionReleased == last.connOpened => last.connClosed

\* C7: a start inserts the five demo texts if and only if it runs the __main__ block
\* (a script run) and finds the table empty; otherwise it leaves the table as it is; the
\* seeding happens at most once for a store.
C7_Seeding ==
    [][(mode = "stopped" /\ mode' # "stopped") =>
          /\ IF mode' = "main" /\ Len(table) = 0
             THEN /\ Len(table') = Len(DemoTexts)
                  /\ \A i \in 1..Len(DemoTexts) : table'[i].texto = DemoTexts[i]
             ELSE table' = table
          /\ hist'.seedings <= 1]_vars

\* A script start that found the seeded store, grown by requests, and left it.
C7_Witness ==
    /\ mode = "main"
    /\ hist.seedings = 1
    /\ hist.skipped
    /\ Len(table) > Len(DemoTexts)

\* C8: in a 200 answer labels and data have the same length, at most 5,
\* keyMetrics has 4 entries, and the second metric is the number of results,
\* which is the number of labels.
C8_Shape ==
    last.status = 200 =>
        LET kd == last.payload.keywordDistribution
            km == last.payload.keyMetrics
        IN  /\ Len(kd.labels) = Len(kd.datasets[1].data)
            /\ Len(kd.labels) <= 5
            /\ Len(km) = 4
            /\ km[2].value = Digits(Len(last.similares))
            /\ Len(last.similares) = Len(kd.labels)

\* A 200 answer with five labels out of a larger store.
C8_Witness ==
    /\ last.status = 200
    /\ Len(last.payload.keywordDistribution.labels) = 5
    /\ Len(table) > 5

\* C9: a call that passes validation and searches has committed its row
\* first: the search reads the row count after the insert and returns
\* min(5, row count) >= 1 results; no 200 answer holds the 50/50 placeholder
\* or the "N/A" top document.
C9_NoFallback ==
    /\ (last.searched /\ last.connOpened) =>
          /\ last.rowid # 0
          /\ last.rowsAfter = last.rowsBefore + 1
          /\ Len(last.similares) = Min(TopKEndpoint, last.rowsAfter)
          /\ Len(last.similares) >= 1
    /\ last.status = 200 =>
          /\ last.payload.keywordDistribution.labels # FallbackLabels
          /\ last.payload.keywordDistribution.datasets[1].data # FallbackData
          /\ last.payload.keyMetrics[3].value # <<"N/A">>

\* A request served on an empty store returns its own row alone.
C9_Witness ==
    /\ last.status = 200
    /\ last.rowsBefore = 0
    /\ Len(last.similares) = 1

\* C10: no step changes or removes a row; the ids are distinct; a new row's id
\* is greater than the id of every row before it.
C10_AppendOnly ==
    [][/\ Len(table') >= Len(table)
       /\ \A i \in 1..Len(table) : table'[i] = table[i]
       /\ \A j \in (Len(table) + 1)..Len(table') :
            \A i \in 1..(j - 1) : table'[j].id > table'[i].id
       /\ \A i, j \in 1..Len(table') : i # j => table'[i].id # table'[j].id]_vars

\* Rows of the seeding and of requests, two of them with the same text.
C10_Witness ==
    /\ hist.demo = Len(DemoTexts)
    /\ hist.ok >= 2
    /\ Len(table) = hist.demo + 2

====
